---------------------------- MODULE Spec2Model ----------------------------
(***************************************************************************)
(* Model of lshash/storage.py: the storage factory, the three storage      *)
(* backends (InMemoryStorage, RedisStorage, LMDBStorage) and the           *)
(* preset-dictionary Compressor.                                            *)
(*                                                                         *)
(* Texts and byte strings are sequences of integers.  A text is the        *)
(* sequence of its character codes ("[" is 91, "1" is 49, ...).  The       *)
(* output of zlib is modelled at the level of the deflate symbol stream:   *)
(* a literal is its byte (0..255), 256 ends the stream and is followed by  *)
(* the two 16-bit halves of the Adler-32 checksum, 257 + (L - 3) followed  *)
(* by a distance d copies L bytes starting d bytes back in the window.     *)
(***************************************************************************)
EXTENDS Integers, Sequences, FiniteSets, TLC

VARIABLES
    mem,        \* the InMemoryStorage instance
    rds,        \* the RedisStorage instance (with the server's key space)
    ldb,        \* the LMDBStorage instance (with the dupsort database)
    ret,        \* what the last call returned or raised, per backend
    appended,   \* history: the values passed to append_val, per key
    everset,    \* history: the keys ever passed to set_val
    cmp,        \* a Compressor instance used on its own
    held,       \* texts compressed by cmp whose bytes the caller still holds
    cres,       \* what the last call on cmp returned
    storage_config, \* the configuration handed to the factory
    index,      \* the index handed to the factory
    libs,       \* the optional client libraries that could be imported
    fres,       \* what the factory call did
    clients,    \* the clients of the Redis server: where each is in its call
    pushes      \* history: the append_val call behind each RPUSH, per key

vars == <<mem, rds, ldb, ret, appended, everset, cmp, held, cres,
          storage_config, index, libs, fres, clients, pushes>>

\* ------------------------------------------------------------------ bounds

\* characters of text a caller has compressed and not yet decompressed
MaxLen == 3
\* number of append_val calls per key
MaxItems == 2

\* ------------------------------------------------------------ zlib streams

\* Adler-32 of the first n bytes of data, as <<high half, low half>>
RECURSIVE AdlerSums(_, _)
AdlerSums(data, n) ==
    IF n = 0 THEN <<0, 1>>
    ELSE LET prev == AdlerSums(data, n - 1)
             a    == (prev[2] + data[n]) % 65521
         IN  <<(prev[1] + a) % 65521, a>>

Adler32(data) == AdlerSums(data, Len(data))

\* length of the match at position p of all against the bytes d back, L
\* bytes being known to match
RECURSIVE MatchLen(_, _, _, _)
MatchLen(all, p, d, L) ==
    IF p + L > Len(all) THEN L
    ELSE IF all[p + L] # all[p + L - d] THEN L
    ELSE MatchLen(all, p, d, L + 1)

\* the longest match at p among the distances d and more, the nearest one
\* among the longest; best is the one found so far
RECURSIVE BestFrom(_, _, _, _)
BestFrom(all, p, d, best) ==
    IF d > p - 1 THEN best
    ELSE LET L == MatchLen(all, p, d, 0)
         IN  BestFrom(all, p, d + 1,
                      IF L > best.len THEN [len |-> L, dist |-> d] ELSE best)

BestMatch(all, p) == BestFrom(all, p, 1, [len |-> 0, dist |-> 0])

\* the deflate symbols for all[p..], the window being all[1..p-1]
RECURSIVE Deflate(_, _)
Deflate(all, p) ==
    IF p > Len(all) THEN <<>>
    ELSE LET m == BestMatch(all, p)
         IN IF m.len >= 3
            THEN <<257 + (m.len - 3), m.dist>> \o Deflate(all, p + m.len)
            ELSE <<all[p]>> \o Deflate(all, p + 1)

\* zlib.compressobj(9)
compressobj == [window |-> <<>>, header |-> FALSE, finished |-> FALSE]

\* c.compress(data): the object after the call and the bytes it gives
\* (30938 is the two-byte zlib header 78 DA)
zcompress(c, data) ==
    IF c.finished
    THEN [obj |-> c, out |-> <<>>, ok |-> FALSE]
    ELSE [obj |-> [c EXCEPT !.window = @ \o data, !.header = TRUE],
          out |-> (IF c.header THEN <<>> ELSE <<30938>>)
                  \o Deflate(c.window \o data, Len(c.window) + 1),
          ok  |-> TRUE]

\* c.flush(zlib.Z_SYNC_FLUSH): an empty stored block (00 00 FF FF); the
\* window is kept
zflush_sync(c) ==
    IF c.finished
    THEN [obj |-> c, out |-> <<>>, ok |-> FALSE]
    ELSE [obj |-> [c EXCEPT !.header = TRUE],
          out |-> (IF c.header THEN <<>> ELSE <<30938>>) \o <<65535>>,
          ok  |-> TRUE]

\* c.flush(zlib.Z_FINISH): end of stream and the checksum of all the data
\* the stream has taken since it was created
zflush_finish(c) ==
    IF c.finished
    THEN [obj |-> c, out |-> <<>>, ok |-> FALSE]
    ELSE [obj |-> [c EXCEPT !.header = TRUE, !.finished = TRUE],
          out |-> (IF c.header THEN <<>> ELSE <<30938>>)
                  \o <<256>> \o Adler32(c.window),
          ok  |-> TRUE]

\* zlib.decompressobj()
decompressobj == [window |-> <<>>, header |-> FALSE, eof |-> FALSE]

\* cur extended by L bytes copied from d bytes back (the copy may overlap)
RECURSIVE CopyBack(_, _, _)
CopyBack(cur, d, L) ==
    IF L = 0 THEN cur
    ELSE CopyBack(Append(cur, cur[Len(cur) - d + 1]), d, L - 1)

\* inflate bytes[i..]: window is all the data of the stream so far, n the
\* part of it this call produced
RECURSIVE Inflate(_, _, _, _, _, _)
Inflate(bytes, i, window, n, header, eof) ==
    LET done(ok) == [obj |-> [window |-> window, header |-> header, eof |-> eof],
                     out |-> SubSeq(window, Len(window) - n + 1, Len(window)),
                     ok  |-> ok]
    IN
    IF i > Len(bytes) \/ eof THEN done(TRUE)
    ELSE IF ~header
    THEN IF bytes[i] = 30938
         THEN Inflate(bytes, i + 1, window, n, TRUE, eof)
         ELSE done(FALSE)
    ELSE IF bytes[i] < 0 THEN done(FALSE)
    ELSE IF bytes[i] < 256
    THEN Inflate(bytes, i + 1, Append(window, bytes[i]), n + 1, header, eof)
    ELSE IF bytes[i] = 256
    THEN IF i + 2 > Len(bytes) THEN done(TRUE)
         ELSE IF <<bytes[i + 1], bytes[i + 2]>> = Adler32(window)
         THEN Inflate(bytes, i + 3, window, n, header, TRUE)
         ELSE done(FALSE)
    ELSE IF bytes[i] = 65535
    THEN Inflate(bytes, i + 1, window, n, header, eof)
    ELSE IF bytes[i] <= 285
    THEN IF i + 1 > Len(bytes) THEN done(TRUE)
         ELSE IF bytes[i + 1] < 1 \/ bytes[i + 1] > Len(window) THEN done(FALSE)
         ELSE Inflate(bytes, i + 2,
                      CopyBack(window, bytes[i + 1], bytes[i] - 257 + 3),
                      n + (bytes[i] - 257 + 3), header, eof)
    ELSE done(FALSE)

\* d.decompress(bytes) with no max_length: all of bytes is consumed, so
\* d.unconsumed_tail is empty afterwards and a loop on it runs no round
zdecompress(d, bytes) == Inflate(bytes, 1, d.window, 0, d.header, d.eof)

\* --------------------------------------------------------------- Compressor

\* Compressor.__init__(seed)
Compressor(seed) ==
    LET c0     == compressobj
        r1     == zcompress(c0, seed)
        r2     == zflush_sync(r1.obj)
        d_seed == r1.out \o r2.out
        d0     == decompressobj
        r3     == zdecompress(d0, d_seed)
    IN  [c_context |-> r2.obj, d_context |-> r3.obj]

\* compress working on self.c_context itself, not on a copy of it
compress_shared(self, text) ==
    LET r1 == zcompress(self.c_context, text)
        r2 == zflush_finish(r1.obj)
    IN  [self |-> [self EXCEPT !.c_context = r2.obj],
         out |-> r1.out \o r2.out, ok |-> r1.ok /\ r2.ok]

\* Compressor.compress(text): self after the call, the bytes returned
compress(self, text) ==
    LET c  == self.c_context
        r1 == zcompress(c, text)
        r2 == zflush_finish(r1.obj)
    IN  [self |-> self, out |-> r1.out \o r2.out, ok |-> r1.ok /\ r2.ok]

\* decompress working on self.d_context itself, not on a copy of it
decompress_shared(self, ctext) ==
    LET r == zdecompress(self.d_context, ctext)
    IN  [self |-> [self EXCEPT !.d_context = r.obj], out |-> r.out, ok |-> r.ok]

\* Compressor.decompress(ctext): self after the call, the text returned
decompress(self, ctext) ==
    LET d == self.d_context
        r == zdecompress(d, ctext)
    IN  [self |-> self, out |-> r.out, ok |-> r.ok]

\* ------------------------------------------------- a Compressor on its own

\* the seed literal: the JSON text of a vector, here "[1, 2, 1]"
Seed == <<91, 49, 44, 32, 50, 44, 32, 49, 93>>

\* the characters texts are made of: "1", "," and " "
Chars == {49, 44, 32}

RECURSIVE TextsOfLen(_)
TextsOfLen(n) ==
    IF n = 0 THEN {<<>>}
    ELSE {Append(t, ch) : t \in TextsOfLen(n - 1), ch \in Chars}

Texts == UNION {TextsOfLen(n) : n \in 0..MaxLen}

\* what a call on cmp gave: the text and the bytes it took and returned, and
\* for decompress the text the caller had compressed to these bytes
NoCall == [op |-> "none", text |-> <<>>, bytes |-> <<>>, of |-> <<>>, ok |-> TRUE]

\* the characters of the texts whose bytes the caller holds
RECURSIVE HeldLen(_)
HeldLen(hs) ==
    IF hs = {} THEN 0
    ELSE LET h == CHOOSE e \in hs : TRUE
         IN  Len(h.text) + HeldLen(hs \ {h})

\* a caller compresses text and keeps the bytes
CompressCall(text) ==
    LET r == compress(cmp, text)
    IN  /\ HeldLen(held) + Len(text) <= MaxLen
        /\ cmp' = r.self
        /\ cres' = [op |-> "compress", text |-> text, bytes |-> r.out,
                    of |-> text, ok |-> r.ok]
        /\ held' = IF r.ok THEN held \cup {[text |-> text, bytes |-> r.out]}
                   ELSE held
        /\ UNCHANGED <<mem, rds, ldb, ret, appended, everset,
                       storage_config, index, libs, fres, clients, pushes>>

\* a caller decompresses bytes it holds
DecompressCall(h) ==
    LET r == decompress(cmp, h.bytes)
    IN  /\ cmp' = r.self
        /\ cres' = [op |-> "decompress", text |-> r.out, bytes |-> h.bytes,
                    of |-> h.text, ok |-> r.ok]
        /\ held' = held \ {h}
        /\ UNCHANGED <<mem, rds, ldb, ret, appended, everset,
                       storage_config, index, libs, fres, clients, pushes>>

\* ------------------------------------------------------------ the backends

Keys == {"k1", "k2"}

\* the values callers append: vectors of digits
Values == {<<1, 2>>, <<3, 4>>}

\* the strings callers store with set_val: "x"
Strs == {<<120>>}

\* json.dumps(val) of a vector of digits: "[1, 2]"
RECURSIVE dumps_items(_, _)
dumps_items(val, i) ==
    IF i > Len(val) THEN <<>>
    ELSE (IF i > 1 THEN <<44, 32>> ELSE <<>>) \o <<48 + val[i]>>
         \o dumps_items(val, i + 1)

dumps(val) == <<91>> \o dumps_items(val, 1) \o <<93>>

\* what a key holds: nothing, a string or a list
Absent == [t |-> "none", v |-> <<>>]

\* what a call gave: out is "ok" or the exception raised; kind tells what
\* val is ("none", "str", "list" or "keys")
Returned(kind, val) == [out |-> "ok", kind |-> kind, val |-> val]

Raised(exc) == [out |-> exc, kind |-> "none", val |-> <<>>]

\* the keys a key space holds
StoredKeys(storage) == {k \in Keys : storage[k].t # "none"}

\* the result of a method: the instance after the call and what the call gave
Result(self, r) == [self |-> self, ret |-> r]

\* --- InMemoryStorage

\* the constructors give the exception raised, or "ok" and the instance
NoInstance == [name |-> "none"]

InMemoryStorage(config) ==
    [out |-> "ok", self |-> [name |-> "dict", storage |-> [k \in Keys |-> Absent]]]

InMemoryStorage_keys(self) ==
    Result(self, Returned("keys", StoredKeys(self.storage)))

\* set_val rebuilding the dict around the one key
InMemoryStorage_set_val_reset(self, key, val) ==
    Result([self EXCEPT !.storage =
                [k \in Keys |-> IF k = key THEN [t |-> "str", v |-> val] ELSE Absent]],
           Returned("none", <<>>))

InMemoryStorage_set_val(self, key, val) ==
    Result([self EXCEPT !.storage[key] = [t |-> "str", v |-> val]],
           Returned("none", <<>>))

InMemoryStorage_get_val(self, key) ==
    IF self.storage[key].t = "none"
    THEN Result(self, Raised("KeyError"))
    ELSE Result(self, Returned(self.storage[key].t, self.storage[key].v))

\* append_val storing a new list of the one value
InMemoryStorage_append_val_overwrite(self, key, val) ==
    Result([self EXCEPT !.storage[key] = [t |-> "list", v |-> <<val>>]],
           Returned("none", <<>>))

\* append_val with one default list shared by the keys: the value reaches
\* the list of every key that holds one
InMemoryStorage_append_val_shared(self, key, val) ==
    IF self.storage[key].t = "str" THEN Result(self, Raised("AttributeError"))
    ELSE Result([self EXCEPT !.storage =
                    [k \in Keys |->
                        IF k = key \/ self.storage[k].t = "list"
                        THEN [t |-> "list",
                              v |-> IF self.storage[k].t = "list"
                                    THEN Append(self.storage[k].v, val)
                                    ELSE <<val>>]
                        ELSE self.storage[k]]],
                Returned("none", <<>>))

\* setdefault(key, []) stores the new list only when key is absent; a
\* string has no append
InMemoryStorage_append_val(self, key, val) ==
    CASE self.storage[key].t = "none" ->
            Result([self EXCEPT !.storage[key] = [t |-> "list", v |-> <<val>>]],
                   Returned("none", <<>>))
      [] self.storage[key].t = "list" ->
            Result([self EXCEPT !.storage[key].v = Append(@, val)],
                   Returned("none", <<>>))
      [] OTHER -> Result(self, Raised("AttributeError"))

\* get_list indexing the dict, as get_val does
InMemoryStorage_get_list_index(self, key) ==
    IF self.storage[key].t = "none"
    THEN Result(self, Raised("KeyError"))
    ELSE Result(self, Returned(self.storage[key].t, self.storage[key].v))

\* get_list by setdefault(key, []): an absent key gets an empty list
InMemoryStorage_get_list_setdefault(self, key) ==
    IF self.storage[key].t = "none"
    THEN Result([self EXCEPT !.storage[key] = [t |-> "list", v |-> <<>>]],
                Returned("list", <<>>))
    ELSE Result(self, Returned(self.storage[key].t, self.storage[key].v))

InMemoryStorage_get_list(self, key) ==
    IF self.storage[key].t = "none"
    THEN Result(self, Returned("list", <<>>))
    ELSE Result(self, Returned(self.storage[key].t, self.storage[key].v))

\* --- RedisStorage; self.storage is the client of a server whose keys hold
\* a string or a list, and whose commands refuse a key of the other type

RedisStorage(config) ==
    IF ~libs.redis THEN [out |-> "ImportError", self |-> NoInstance]
    ELSE [out |-> "ok",
          self |-> [name |-> "redis", storage |-> [k \in Keys |-> Absent],
                    c |-> Compressor(Seed)]]

RedisStorage_keys(self) ==
    Result(self, Returned("keys", StoredKeys(self.storage)))

RedisStorage_set_val(self, key, val) ==
    Result([self EXCEPT !.storage[key] = [t |-> "str", v |-> val]],
           Returned("none", <<>>))

RedisStorage_get_val(self, key) ==
    CASE self.storage[key].t = "none" -> Result(self, Returned("none", <<>>))
      [] self.storage[key].t = "str"  ->
            Result(self, Returned("str", self.storage[key].v))
      [] OTHER -> Result(self, Raised("ResponseError"))

\* append_val pushing at the head of the list
RedisStorage_append_val_lpush(self, key, val) ==
    LET r  == compress(self.c, dumps(val))
        s1 == [self EXCEPT !.c = r.self]
    IN  IF ~r.ok THEN Result(s1, Raised("zlib.error"))
        ELSE IF self.storage[key].t = "str"
        THEN Result(s1, Raised("ResponseError"))
        ELSE Result([s1 EXCEPT !.storage[key] =
                        [t |-> "list", v |-> <<r.out>> \o @.v]],
                    Returned("none", <<>>))

\* append_val storing the bytes with set
RedisStorage_append_val_set(self, key, val) ==
    LET r  == compress(self.c, dumps(val))
        s1 == [self EXCEPT !.c = r.self]
    IN  IF ~r.ok THEN Result(s1, Raised("zlib.error"))
        ELSE Result([s1 EXCEPT !.storage[key] = [t |-> "str", v |-> r.out]],
                    Returned("none", <<>>))

\* LPUSH key value
rpush_left(db, key, value) ==
    IF db[key].t = "str" THEN [ok |-> FALSE, db |-> db]
    ELSE [ok |-> TRUE,
          db |-> [db EXCEPT ![key] = [t |-> "list", v |-> <<value>> \o @.v]]]

\* self.storage.rpush(key, cval): the command RPUSH key value, which the
\* server runs on its key space db in one step
rpush(db, key, value) ==
    IF db[key].t = "str" THEN [ok |-> FALSE, db |-> db]
    ELSE [ok |-> TRUE,
          db |-> [db EXCEPT ![key] = [t |-> "list", v |-> Append(@.v, value)]]]

\* self.storage.lrange(key, 0, -1): the command LRANGE key 0 -1, which the
\* server runs in one step
lrange(db, key) ==
    IF db[key].t = "str" THEN [ok |-> FALSE, items |-> <<>>]
    ELSE [ok |-> TRUE, items |-> db[key].v]

RedisStorage_append_val(self, key, val) ==
    LET r    == compress(self.c, dumps(val))
        cval == r.out
        s1   == [self EXCEPT !.c = r.self]
        push == rpush(s1.storage, key, cval)
    IN  IF ~r.ok THEN Result(s1, Raised("zlib.error"))
        ELSE IF ~push.ok THEN Result(s1, Raised("ResponseError"))
        ELSE Result([s1 EXCEPT !.storage = push.db], Returned("none", <<>>))

\* [self.c.decompress(r) for r in items]: the instance and result after
\* items[i..], res being the result so far
RECURSIVE DecompressAll(_, _, _, _)
DecompressAll(self, items, i, res) ==
    IF i > Len(items) THEN Result(self, Returned("list", res))
    ELSE LET r == decompress(self.c, items[i])
         IN  IF ~r.ok THEN Result([self EXCEPT !.c = r.self], Raised("zlib.error"))
             ELSE DecompressAll([self EXCEPT !.c = r.self], items, i + 1,
                                Append(res, r.out))

RedisStorage_get_list(self, key) ==
    LET range == lrange(self.storage, key)
    IN  IF ~range.ok THEN Result(self, Raised("ResponseError"))
        ELSE DecompressAll(self, range.items, 1, <<>>)

\* --- LMDBStorage; self.storage is a dupsort database: a key holds a set of
\* values, kept in the order of their bytes

\* a < b in the byte order of the database
RECURSIVE BytesLess(_, _)
BytesLess(a, b) ==
    IF Len(a) = 0 THEN Len(b) > 0
    ELSE IF Len(b) = 0 THEN FALSE
    ELSE IF a[1] # b[1] THEN a[1] < b[1]
    ELSE BytesLess(Tail(a), Tail(b))

\* put keeping the duplicates in the order they came
DupPut_last(dups, value) ==
    IF \E i \in 1..Len(dups) : dups[i] = value THEN dups
    ELSE Append(dups, value)

\* txn.put(key, value) on the duplicates dups of key: a pair already stored
\* is stored once
RECURSIVE DupPut(_, _)
DupPut(dups, value) ==
    IF Len(dups) = 0 THEN <<value>>
    ELSE IF dups[1] = value THEN dups
    ELSE IF BytesLess(value, dups[1]) THEN <<value>> \o dups
    ELSE <<dups[1]>> \o DupPut(Tail(dups), value)

LMDBStorage(config) ==
    IF ~libs.lmdb THEN [out |-> "ImportError", self |-> NoInstance]
    ELSE [out |-> "ok",
          self |-> [name |-> "lmdb", storage |-> [k \in Keys |-> <<>>],
                    c |-> Compressor(Seed)]]

LMDBStorage_keys(self) == Result(self, Raised("NotImplementedError"))

\* set_val storing the value as one more entry of the key
LMDBStorage_set_val_put(self, key, val) ==
    Result([self EXCEPT !.storage[key] = DupPut(@, val)], Returned("none", <<>>))

LMDBStorage_set_val(self, key, val) == Result(self, Raised("NotImplementedError"))

LMDBStorage_get_val(self, key) == Result(self, Raised("NotImplementedError"))

\* the step of append_val that fails: none, json.dumps (a value it cannot
\* encode), compress, or txn.put, before or after the entry reached the
\* pages of the transaction (map full, value too long, ...)
Faults == {"none", "dumps", "compress", "put_early", "put_late"}

\* txn.put(key, value) in a write transaction whose view of the database
\* is txn: whether it returned, and the view after it
txn_put(txn, key, value, fault) ==
    CASE fault = "put_early" -> [ok |-> FALSE, txn |-> txn]
      [] fault = "put_late"  ->
            [ok |-> FALSE, txn |-> [txn EXCEPT ![key] = DupPut(@, value)]]
      [] OTHER -> [ok |-> TRUE, txn |-> [txn EXCEPT ![key] = DupPut(@, value)]]

\* leaving the with block committing whatever the body did
txn_exit_commit(db, put) == put.txn

\* leaving the with block of a transaction begun on db: commit when the
\* body returned, abort when it raised
txn_exit(db, put) == IF put.ok THEN put.txn ELSE db

\* LMDBStorage.append_val, the step fault failing
LMDBStorage_append_val_env(self, key, val, fault) ==
    IF fault = "dumps" THEN Result(self, Raised("TypeError"))
    ELSE LET r    == compress(self.c, dumps(val))
             cval == r.out
             s1   == [self EXCEPT !.c = r.self]
             put  == txn_put(s1.storage, key, cval, fault)
         IN  IF fault = "compress" \/ ~r.ok THEN Result(s1, Raised("zlib.error"))
             ELSE Result([s1 EXCEPT !.storage = txn_exit(@, put)],
                         IF put.ok THEN Returned("none", <<>>)
                         ELSE Raised("lmdb.Error"))

\* LMDBStorage.append_val, no step failing
LMDBStorage_append_val(self, key, val) ==
    LMDBStorage_append_val_env(self, key, val, "none")

\* cursor.set_key(key) finds no key without values: result stays []
LMDBStorage_get_list(self, key) ==
    DecompressAll(self, self.storage[key], 1, <<>>)

\* -------------------------------------------------------------- the factory

\* the kinds a configuration may name; "other" is one the factory does not know
Kinds == {"dict", "redis", "lmdb", "other"}

Indexes == 0..2

\* a backend's own configuration: its 'db' entry is unset, an integer or a
\* string
NoDb == [t |-> "unset", v |-> 0]

\* str(index) of a one-digit index
str(i) == <<48 + i>>

\* a configuration naming the kinds ks, no 'db' set
ConfigOf(ks) == [k \in ks |-> [db |-> NoDb]]

\* the factory looking for 'redis' before 'dict'
storage_redis_first(config, idx) ==
    IF "redis" \in DOMAIN config
    THEN LET c1 == [config EXCEPT !["redis"].db = [t |-> "int", v |-> idx]]
             r  == RedisStorage(c1["redis"])
         IN  [out |-> r.out, self |-> r.self, config |-> c1]
    ELSE IF "dict" \in DOMAIN config
    THEN LET r == InMemoryStorage(config["dict"])
         IN  [out |-> r.out, self |-> r.self, config |-> config]
    ELSE IF "lmdb" \in DOMAIN config
    THEN LET c1 == [config EXCEPT !["lmdb"].db = [t |-> "str", v |-> str(idx)]]
             r  == LMDBStorage(c1["lmdb"])
         IN  [out |-> r.out, self |-> r.self, config |-> c1]
    ELSE [out |-> "ValueError", self |-> NoInstance, config |-> config]

\* storage(storage_config, index): the exception raised or "ok", the
\* instance returned, and storage_config after the call
storage(config, idx) ==
    IF "dict" \in DOMAIN config
    THEN LET r == InMemoryStorage(config["dict"])
         IN  [out |-> r.out, self |-> r.self, config |-> config]
    ELSE IF "redis" \in DOMAIN config
    THEN LET c1 == [config EXCEPT !["redis"].db = [t |-> "int", v |-> idx]]
             r  == RedisStorage(c1["redis"])
         IN  [out |-> r.out, self |-> r.self, config |-> c1]
    ELSE IF "lmdb" \in DOMAIN config
    THEN LET c1 == [config EXCEPT !["lmdb"].db = [t |-> "str", v |-> str(idx)]]
             r  == LMDBStorage(c1["lmdb"])
         IN  [out |-> r.out, self |-> r.self, config |-> c1]
    ELSE [out |-> "ValueError", self |-> NoInstance, config |-> config]

NotCalled == [out |-> "none", name |-> "none"]

\* the program calls the factory
StorageCall ==
    LET r == storage(storage_config, index)
    IN  /\ fres = NotCalled
        /\ fres' = [out |-> r.out, name |-> r.self.name]
        /\ storage_config' = r.config
        /\ UNCHANGED <<mem, rds, ldb, ret, appended, everset, cmp, held, cres,
                       index, libs, clients, pushes>>

\* ---------------------------------------------------- calls on the backends

NoRet == [op |-> "none", key |-> "none"]

\* the same call made on each of the three backends
Called(op, key, m, r, l) ==
    /\ mem' = m.self
    /\ rds' = r.self
    /\ ldb' = l.self
    /\ ret' = [op |-> op, key |-> key,
               dict |-> m.ret, redis |-> r.ret, lmdb |-> l.ret]
    /\ UNCHANGED <<cmp, held, cres, storage_config, index, libs, fres,
                   clients, pushes>>

KeysCall ==
    /\ Called("keys", "none", InMemoryStorage_keys(mem),
              RedisStorage_keys(rds), LMDBStorage_keys(ldb))
    /\ UNCHANGED <<appended, everset>>

SetValCall(key, val) ==
    /\ Called("set_val", key, InMemoryStorage_set_val(mem, key, val),
              RedisStorage_set_val(rds, key, val),
              LMDBStorage_set_val(ldb, key, val))
    /\ everset' = everset \cup {key}
    /\ UNCHANGED appended

GetValCall(key) ==
    /\ Called("get_val", key, InMemoryStorage_get_val(mem, key),
              RedisStorage_get_val(rds, key), LMDBStorage_get_val(ldb, key))
    /\ UNCHANGED <<appended, everset>>

AppendValCall(key, val) ==
    /\ Len(appended[key]) < MaxItems
    /\ Called("append_val", key, InMemoryStorage_append_val(mem, key, val),
              RedisStorage_append_val(rds, key, val),
              LMDBStorage_append_val(ldb, key, val))
    /\ appended' = [appended EXCEPT ![key] = Append(@, val)]
    /\ UNCHANGED everset

GetListCall(key) ==
    /\ Called("get_list", key, InMemoryStorage_get_list(mem, key),
              RedisStorage_get_list(rds, key), LMDBStorage_get_list(ldb, key))
    /\ UNCHANGED <<appended, everset>>

\* ---------------------------------- the LMDB backend and its environment

\* the call was not made on this backend
NotMade == Raised("not called")

\* append_val on the LMDB backend, the step fault failing; appended keeps
\* the values whose call returned
LmdbAppendValCall(key, val, fault) ==
    LET l == LMDBStorage_append_val_env(ldb, key, val, fault)
    IN  /\ Len(appended[key]) < MaxItems
        /\ ldb' = l.self
        /\ ret' = [op |-> "append_val", key |-> key, fault |-> fault,
                   dict |-> NotMade, redis |-> NotMade, lmdb |-> l.ret]
        /\ appended' = IF l.ret.out = "ok"
                       THEN [appended EXCEPT ![key] = Append(@, val)]
                       ELSE appended
        /\ UNCHANGED <<mem, rds, everset, cmp, held, cres,
                       storage_config, index, libs, fres, clients, pushes>>

\* get_list on the LMDB backend
LmdbGetListCall(key) ==
    LET l == LMDBStorage_get_list(ldb, key)
    IN  /\ ldb' = l.self
        /\ ret' = [op |-> "get_list", key |-> key, fault |-> "none",
                   dict |-> NotMade, redis |-> NotMade, lmdb |-> l.ret]
        /\ UNCHANGED <<mem, rds, appended, everset, cmp, held, cres,
                       storage_config, index, libs, fres, clients, pushes>>

\* --------------------------------------- several clients of one Redis server

\* the clients: each holds a RedisStorage on the same server, built from the
\* same configuration, so each holds a Compressor equal to rds.c
Clients == {"c1", "c2"}

\* the key whose list the clients share
SharedKey == "k1"

\* a client between calls
IdleClient ==
    [pc |-> "idle", key |-> "none", cval |-> <<>>, items |-> <<>>,
     calls |-> <<>>]

\* append_val up to the push: client c has serialized and compressed val
AppendValCompress(c, key, val) ==
    LET r == compress(rds.c, dumps(val))
    IN  /\ clients[c].pc = "idle"
        /\ Len(appended[key]) < MaxItems
        /\ r.ok
        /\ clients' = [clients EXCEPT ![c] =
               [@ EXCEPT !.pc = "rpush", !.key = key, !.cval = r.out,
                         !.calls = Append(@, [key |-> key, val |-> val])]]
        /\ appended' = [appended EXCEPT ![key] = Append(@, val)]
        /\ UNCHANGED <<mem, rds, ldb, ret, everset, cmp, held, cres,
                       storage_config, index, libs, fres, pushes>>

\* the push of client c reaches the server, and append_val returns
AppendValRpush(c) ==
    LET push == rpush(rds.storage, clients[c].key, clients[c].cval)
    IN  /\ clients[c].pc = "rpush"
        /\ rds' = [rds EXCEPT !.storage = push.db]
        /\ pushes' = [pushes EXCEPT ![clients[c].key] =
                         Append(@, <<c, Len(clients[c].calls)>>)]
        /\ clients' = [clients EXCEPT ![c] =
               [@ EXCEPT !.pc = "idle", !.key = "none", !.cval = <<>>]]
        /\ UNCHANGED <<mem, ldb, ret, appended, everset, cmp, held, cres,
                       storage_config, index, libs, fres>>

\* get_list up to the answer of the server: client c holds the items of key
GetListLrange(c, key) ==
    LET range == lrange(rds.storage, key)
    IN  /\ clients[c].pc = "idle"
        /\ range.ok
        /\ clients' = [clients EXCEPT ![c] =
               [@ EXCEPT !.pc = "decompress", !.key = key,
                         !.items = range.items]]
        /\ UNCHANGED <<mem, rds, ldb, ret, appended, everset, cmp, held, cres,
                       storage_config, index, libs, fres, pushes>>

\* client c has decompressed the items, and get_list returns
GetListReturn(c) ==
    LET l == DecompressAll(rds, clients[c].items, 1, <<>>)
    IN  /\ clients[c].pc = "decompress"
        /\ l.ret.out = "ok"
        /\ clients' = [clients EXCEPT ![c] =
               [@ EXCEPT !.pc = "idle", !.key = "none", !.items = <<>>]]
        /\ ret' = [op |-> "get_list", key |-> clients[c].key, fault |-> "none",
                   dict |-> NotMade, redis |-> l.ret, lmdb |-> NotMade]
        /\ UNCHANGED <<mem, rds, ldb, appended, everset, cmp, held, cres,
                       storage_config, index, libs, fres, pushes>>

\* ----------------------------------------------------------- specifications

AllLibs == [redis |-> TRUE, lmdb |-> TRUE]

\* the state once the three backends are constructed, each by the factory
\* from a configuration that names it
InitBackends ==
    /\ libs = AllLibs
    /\ mem = storage(ConfigOf({"dict"}), 0).self
    /\ rds = storage(ConfigOf({"redis"}), 0).self
    /\ ldb = storage(ConfigOf({"lmdb"}), 0).self
    /\ ret = NoRet
    /\ appended = [k \in Keys |-> <<>>]
    /\ everset = {}
    /\ cmp = Compressor(Seed)
    /\ held = {}
    /\ cres = NoCall
    /\ clients = [c \in Clients |-> IdleClient]
    /\ pushes = [k \in Keys |-> <<>>]

Init ==
    /\ InitBackends
    /\ storage_config = ConfigOf({"dict"})
    /\ index = 0
    /\ fres = NotCalled

Next ==
    \/ KeysCall
    \/ \E key \in Keys, val \in Strs : SetValCall(key, val)
    \/ \E key \in Keys : GetValCall(key)
    \/ \E key \in Keys, val \in Values : AppendValCall(key, val)
    \/ \E key \in Keys : GetListCall(key)

Spec == Init /\ [][Next]_vars

\* a Compressor used on its own by a caller
NextCompressor ==
    \/ \E text \in Texts : CompressCall(text)
    \/ \E h \in held : DecompressCall(h)

SpecCompressor == Init /\ [][NextCompressor]_vars

\* the LMDB backend alone, any step of append_val failing
NextLmdb ==
    \/ \E key \in Keys, val \in Values, fault \in Faults :
          LmdbAppendValCall(key, val, fault)
    \/ \E key \in Keys : LmdbGetListCall(key)

SpecLmdb == Init /\ [][NextLmdb]_vars

\* clients appending to and reading the lists of one server, in any
\* interleaving of their steps
NextClients ==
    \/ \E c \in Clients, val \in Values : AppendValCompress(c, SharedKey, val)
    \/ \E c \in Clients : AppendValRpush(c)
    \/ \E c \in Clients : GetListLrange(c, SharedKey)
    \/ \E c \in Clients : GetListReturn(c)

SpecClients == Init /\ [][NextClients]_vars

\* the factory called once, on any configuration
InitFactory ==
    /\ libs \in [redis : BOOLEAN, lmdb : BOOLEAN]
    /\ mem = NoInstance /\ rds = NoInstance /\ ldb = NoInstance
    /\ ret = NoRet
    /\ appended = [k \in Keys |-> <<>>]
    /\ everset = {}
    /\ cmp = Compressor(Seed)
    /\ held = {}
    /\ cres = NoCall
    /\ clients = [c \in Clients |-> IdleClient]
    /\ pushes = [k \in Keys |-> <<>>]
    /\ storage_config \in {ConfigOf(ks) : ks \in SUBSET Kinds}
    /\ index \in Indexes
    /\ fres = NotCalled

NextFactory == StorageCall

SpecFactory == InitFactory /\ [][NextFactory]_vars

\* ------------------------------------------------------------------- claims

\* what get_list(k) gives on each backend in the current state
MemList(k) == InMemoryStorage_get_list(mem, k).ret

RedisList(k) == RedisStorage_get_list(rds, k).ret

LmdbList(k) == LMDBStorage_get_list(ldb, k).ret

\* what get_val(k) gives in the current state
MemVal(k) == InMemoryStorage_get_val(mem, k).ret

RedisVal(k) == RedisStorage_get_val(rds, k).ret

\* the same after the step
MemListNext(k) == InMemoryStorage_get_list(mem', k).ret

RedisListNext(k) == RedisStorage_get_list(rds', k).ret

LmdbListNext(k) == LMDBStorage_get_list(ldb', k).ret

MemValNext(k) == InMemoryStorage_get_val(mem', k).ret

RedisValNext(k) == RedisStorage_get_val(rds', k).ret

\* the operation and the key of the step
StepOp == ret'.op

StepKey == ret'.key

\* the call gave a list equal to items
GaveList(r, items) == r.out = "ok" /\ r.kind = "list" /\ r.val = items

\* two calls gave the same
SameRet(a, b) == a.out = b.out /\ a.kind = b.kind /\ a.val = b.val

\* the JSON texts of the values appended under k, in append order
DumpsAll(k) == [i \in 1..Len(appended[k]) |-> dumps(appended[k][i])]

\* C1: on the in-memory backend, for a key k that only append_val and
\* get_list were called on, get_list(k) gives exactly the values appended
\* under k, in append order, duplicates included, whatever was called on the
\* other keys.
C1_MemAppendOrder ==
    /\ \A k \in Keys \ everset : GaveList(MemList(k), appended[k])
    /\ (ret.op = "get_list" /\ ret.key \notin everset)
           => GaveList(ret.dict, appended[ret.key])

\* get_list gave a list of two equal values, the other key having values too
C1_Witness ==
    /\ ret.op = "get_list"
    /\ ret.key \notin everset
    /\ Len(appended[ret.key]) = 2
    /\ appended[ret.key][1] = appended[ret.key][2]
    /\ ret.dict.val = appended[ret.key]
    /\ \E k \in Keys \ {ret.key} : appended[k] # <<>>

C3_NeverAppendedEmpty ==
    (ret.op = "get_list" /\ appended[ret.key] = <<>>)
        => /\ GaveList(ret.dict, <<>>)
           /\ GaveList(ret.redis, <<>>)
           /\ GaveList(ret.lmdb, <<>>)

\* C3 amended: on every backend get_list(k) gives an empty list, and does
\* not raise, for a key k never passed to append_val nor to set_val,
\* whatever was called on the other keys.
C3_NeverStoredEmpty ==
    /\ \A k \in Keys \ everset :
          appended[k] = <<>>
              => /\ GaveList(MemList(k), <<>>)
                 /\ GaveList(RedisList(k), <<>>)
                 /\ GaveList(LmdbList(k), <<>>)
    /\ (ret.op = "get_list" /\ ret.key \notin everset /\ appended[ret.key] = <<>>)
           => /\ GaveList(ret.dict, <<>>)
              /\ GaveList(ret.redis, <<>>)
              /\ GaveList(ret.lmdb, <<>>)

\* get_list gave [] on the three backends for a key nothing was stored
\* under, the other key holding a string and having been appended to
C3_Witness ==
    /\ ret.op = "get_list"
    /\ ret.key \notin everset
    /\ appended[ret.key] = <<>>
    /\ GaveList(ret.dict, <<>>) /\ GaveList(ret.redis, <<>>) /\ GaveList(ret.lmdb, <<>>)
    /\ \E k \in Keys \ {ret.key} : k \in everset /\ appended[k] # <<>>

\* C4 as claimed: on the LMDB backend get_list(k) gives as many entries as
\* append_val(k, .) was called, equal values included.
C4_LmdbLength ==
    \A k \in Keys :
        LmdbList(k).out = "ok" /\ Len(LmdbList(k).val) = Len(appended[k])

\* the call get_list(k) gives a list now and, after the step, does not give
\* a shorter one
NotShorter(before, after) ==
    before.out = "ok" => after.out = "ok" /\ Len(after.val) >= Len(before.val)

\* C5 as claimed: on every backend, no call makes what get_list(k) gives
\* shorter.
C5_NeverShorter ==
    [][\A k \in Keys :
          /\ (MemList(k).out = "ok" /\ MemListNext(k).out = "ok")
                 => Len(MemListNext(k).val) >= Len(MemList(k).val)
          /\ (RedisList(k).out = "ok" /\ RedisListNext(k).out = "ok")
                 => Len(RedisListNext(k).val) >= Len(RedisList(k).val)
          /\ (LmdbList(k).out = "ok" /\ LmdbListNext(k).out = "ok")
                 => Len(LmdbListNext(k).val) >= Len(LmdbList(k).val)]_vars

\* C5 amended: on every backend and for every key k, no call other than
\* set_val(k, .) on that same key makes what get_list(k) gives shorter, or
\* makes get_list(k) raise.
C5_NeverShorterButSetVal ==
    [][\A k \in Keys :
          (StepOp = "set_val" /\ StepKey = k)
          \/ /\ NotShorter(MemList(k), MemListNext(k))
             /\ NotShorter(RedisList(k), RedisListNext(k))
             /\ NotShorter(LmdbList(k), LmdbListNext(k))]_vars

\* an append_val made the lists of a key two long on the three backends,
\* after a set_val on the other key
C5_Witness ==
    /\ ret.op = "append_val"
    /\ Len(MemList(ret.key).val) = 2
    /\ Len(RedisList(ret.key).val) = 2
    /\ Len(LmdbList(ret.key).val) = 2
    /\ everset = Keys \ {ret.key}

\* C6 as claimed: in memory and on Redis, set_val(k, v) leaves what
\* get_list(k) gives unchanged and append_val(k, v) leaves what get_val(k)
\* gives unchanged.
C6_SlotIndependent ==
    [][/\ StepOp = "set_val"
            => /\ SameRet(MemList(StepKey), MemListNext(StepKey))
               /\ SameRet(RedisList(StepKey), RedisListNext(StepKey))
       /\ StepOp = "append_val"
            => /\ SameRet(MemVal(StepKey), MemValNext(StepKey))
               /\ SameRet(RedisVal(StepKey), RedisValNext(StepKey))]_vars

\* C6 amended: in memory and on Redis the single value and the list of a
\* key share the key.  set_val(k, v) and append_val(k, v) leave what
\* get_list(k2) and get_val(k2) give unchanged for every other key k2; but
\* after set_val(k, v) get_list(k) gives the string in memory and raises on
\* Redis, and after an append_val(k, v) that did not raise get_val(k) gives
\* the list in memory and raises on Redis.
C6_SlotSharesKey ==
    [][/\ StepOp \in {"set_val", "append_val"}
            => \A k2 \in Keys \ {StepKey} :
                  /\ SameRet(MemList(k2), MemListNext(k2))
                  /\ SameRet(RedisList(k2), RedisListNext(k2))
                  /\ SameRet(MemVal(k2), MemValNext(k2))
                  /\ SameRet(RedisVal(k2), RedisValNext(k2))
       /\ StepOp = "set_val"
            => /\ MemListNext(StepKey).out = "ok" /\ MemListNext(StepKey).kind = "str"
               /\ MemListNext(StepKey).val \in Strs
               /\ RedisListNext(StepKey).out = "ResponseError"
       /\ (StepOp = "append_val" /\ ret'.dict.out = "ok")
            => /\ MemValNext(StepKey).kind = "list"
               /\ MemValNext(StepKey).val = MemListNext(StepKey).val
               /\ ~SameRet(MemVal(StepKey), MemValNext(StepKey))
       /\ (StepOp = "append_val" /\ ret'.redis.out = "ok")
            => RedisValNext(StepKey).out = "ResponseError"]_vars

\* set_val was called on a key holding a list of two, the other key holding
\* a list too
C6_Witness ==
    /\ ret.op = "set_val"
    /\ Len(appended[ret.key]) = 2
    /\ MemList(ret.key).kind = "str"
    /\ RedisList(ret.key).out = "ResponseError"
    /\ \E k2 \in Keys \ {ret.key} :
          Len(MemList(k2).val) = 2 /\ MemList(k2).kind = "list"

\* C8 as claimed: get_val(k) on a key never set ends the same way on the
\* three backends.
C8_GetValParity ==
    (ret.op = "get_val" /\ ret.key \notin everset /\ appended[ret.key] = <<>>)
        => /\ ret.dict.out = ret.redis.out /\ ret.dict.kind = ret.redis.kind
           /\ ret.redis.out = ret.lmdb.out /\ ret.redis.kind = ret.lmdb.kind

\* C9 as claimed: after append_val calls only, keys() gives on every backend
\* the keys something was appended under.
C9_KeysParity ==
    (ret.op = "keys" /\ everset = {})
        => LET stored == {k \in Keys : appended[k] # <<>>}
           IN  /\ ret.dict.out = "ok" /\ ret.dict.val = stored
               /\ ret.redis.out = "ok" /\ ret.redis.val = stored
               /\ ret.lmdb.out = "ok" /\ ret.lmdb.val = stored

\* the kinds the factory knows
Recognized == {"dict", "redis", "lmdb"}

C10_RoundTrip ==
    /\ cres.op = "decompress" => cres.ok /\ cres.text = cres.of
    /\ cres.op = "compress" => cres.ok
    /\ \A h \in held : LET r == decompress(cmp, h.bytes)
                       IN  r.ok /\ r.out = h.text

\* a text of three characters was found in the window (its bytes start with
\* a copy), came back from decompress, and another output is still held
C10_Witness ==
    /\ cres.op = "decompress"
    /\ Len(cres.of) = 3
    /\ cres.bytes[1] >= 257
    /\ cres.text = cres.of
    /\ held # {}

\* C11: on the LMDB backend set_val and get_val raise NotImplementedError
\* for every key and value and in every state, and leave the instance, and
\* with it the entries stored under every key, unchanged.
C11_LmdbNoSingleValue ==
    [][(StepOp = "set_val" \/ StepOp = "get_val")
          => /\ ret'.lmdb.out = "NotImplementedError"
             /\ ldb' = ldb
             /\ (\A k \in Keys : ldb'.storage[k] = ldb.storage[k])
      ]_vars

\* set_val raised on the LMDB backend for a key holding two entries
C11_Witness ==
    /\ ret.op = "set_val"
    /\ ret.lmdb.out = "NotImplementedError"
    /\ Len(ldb.storage[ret.key]) = 2
    /\ Len(LmdbList(ret.key).val) = 2

\* the bytes a Compressor built from the seed gives for the value
SeedBytes(val) == compress(Compressor(Seed), dumps(val)).out

\* C12: on the LMDB backend get_list(k) gives the entries stored under k in
\* the ascending order of their compressed bytes, whatever the order they
\* were appended in: the stored entries are the compressed forms of the
\* values appended under k and of no other key, each once, and the list
\* returned is made of their decompressed forms, in the stored order.
C12_LmdbByteOrder ==
    \A k \in Keys :
        LET dups == ldb.storage[k]
            got  == LmdbList(k)
        IN  /\ \A i \in 1..(Len(dups) - 1) : BytesLess(dups[i], dups[i + 1])
            /\ {dups[i] : i \in 1..Len(dups)}
                   = {SeedBytes(appended[k][i]) : i \in 1..Len(appended[k])}
            /\ got.out = "ok" /\ got.kind = "list"
            /\ Len(got.val) = Len(dups)
            /\ \A i \in 1..Len(dups) :
                  /\ got.val[i] = decompress(ldb.c, dups[i]).out
                  /\ \E j \in 1..Len(appended[k]) :
                        /\ got.val[i] = dumps(appended[k][j])
                        /\ dups[i] = SeedBytes(appended[k][j])
            /\ (ret.op = "get_list" /\ ret.key = k) => SameRet(ret.lmdb, got)

\* get_list gave two entries in the order of their bytes, which is not the
\* order they were appended in, the other key holding other entries
C12_Witness ==
    /\ ret.op = "get_list"
    /\ Len(appended[ret.key]) = 2
    /\ ret.lmdb.out = "ok"
    /\ Len(ret.lmdb.val) = 2
    /\ ret.lmdb.val = <<dumps(appended[ret.key][2]), dumps(appended[ret.key][1])>>
    /\ BytesLess(ldb.storage[ret.key][1], ldb.storage[ret.key][2])
    /\ \E k \in Keys \ {ret.key} :
          ldb.storage[k] # <<>> /\ ldb.storage[k] # ldb.storage[ret.key]

\* the texts get_list(k) gives on the LMDB backend after the step
LmdbTextsNext(k) == {LmdbListNext(k).val[i] : i \in 1..Len(LmdbListNext(k).val)}

\* C13: on the LMDB backend append_val is atomic.  When it returns, its
\* entry is committed: get_list of the key gives it, after this step and
\* after every later one.  When it raises, at json.dumps, at compress or at
\* the put inside the transaction, what is stored under every key is what
\* it was before the call.
C13_LmdbAppendAtomic ==
    [][/\ (StepOp = "append_val" /\ ret'.lmdb.out # "ok")
            => /\ ldb'.storage = ldb.storage
               /\ appended' = appended
               /\ (\A k \in Keys : SameRet(LmdbList(k), LmdbListNext(k)))
       /\ (StepOp = "append_val" /\ ret'.lmdb.out = "ok")
            => /\ ret'.fault = "none"
               /\ Len(appended'[StepKey]) = Len(appended[StepKey]) + 1
               /\ dumps(appended'[StepKey][Len(appended'[StepKey])])
                      \in LmdbTextsNext(StepKey)
       /\ (\A k \in Keys : \A i \in 1..Len(appended'[k]) :
              dumps(appended'[k][i]) \in LmdbTextsNext(k))
       /\ StepOp = "get_list"
            => /\ ret'.lmdb.out = "ok"
               /\ (\A i \in 1..Len(appended[StepKey]) :
                      \E j \in 1..Len(ret'.lmdb.val) :
                          ret'.lmdb.val[j] = dumps(appended[StepKey][i]))
      ]_vars

\* the put of a new entry raised after it had reached the pages of the
\* transaction, and the key holds the one entry it held before
C13_Witness ==
    /\ ret.op = "append_val"
    /\ ret.fault = "put_late"
    /\ ret.lmdb.out = "lmdb.Error"
    /\ Len(appended[ret.key]) = 1
    /\ Len(ldb.storage[ret.key]) = 1
    /\ LmdbList(ret.key).val = <<dumps(appended[ret.key][1])>>

\* a is a prefix of b
IsPrefix(a, b) ==
    /\ Len(a) <= Len(b)
    /\ \A i \in 1..Len(a) : a[i] = b[i]

\* the append_val calls of client c on key k whose push has been made,
\* after the step
PushedNext(c, k) ==
    {n \in 1..Len(clients'[c].calls) :
        /\ clients'[c].calls[n].key = k
        /\ ~(n = Len(clients'[c].calls) /\ clients'[c].pc = "rpush")}

\* C14: several clients appending to the lists of one Redis server, their
\* steps interleaved in any way.  Each append_val makes exactly one push to
\* the right end: after every step the list of a key holds, entry by entry,
\* the values of the calls pushed on it, every finished call exactly once
\* and none other, the calls of one client in the order it made them.  A
\* step only extends a list at its right end, and what a get_list has read
\* and what it returns is a prefix of the list as it is then, and so of the
\* list as it is ever after.
C14_RedisConcurrentAppends ==
    [][\A k \in Keys :
        LET list == RedisListNext(k)
            log  == pushes'[k]
        IN  /\ list.out = "ok" /\ list.kind = "list"
            /\ Len(list.val) = Len(log)
            /\ \A i \in 1..Len(log) :
                  /\ log[i][1] \in Clients
                  /\ log[i][2] \in PushedNext(log[i][1], k)
                  /\ list.val[i] = dumps(clients'[log[i][1]].calls[log[i][2]].val)
            /\ \A c \in Clients : \A n \in PushedNext(c, k) :
                  Cardinality({i \in 1..Len(log) : log[i] = <<c, n>>}) = 1
            /\ \A i \in 1..Len(log) : \A j \in 1..Len(log) :
                  (i < j /\ log[i][1] = log[j][1]) => log[i][2] < log[j][2]
            /\ IsPrefix(RedisList(k).val, list.val)
            /\ \A c \in Clients :
                  (clients'[c].pc = "decompress" /\ clients'[c].key = k)
                     => IsPrefix(clients'[c].items, rds'.storage[k].v)
            /\ (StepOp = "get_list" /\ StepKey = k /\ ret' # ret)
                  => /\ ret'.redis.out = "ok"
                     /\ IsPrefix(ret'.redis.val, list.val)
      ]_vars

\* two clients appended different values to one key, the client that began
\* second pushed first, and a get_list that read the list between the two
\* pushes returned its first entry alone
C14_Witness ==
    \E k \in Keys :
        /\ pushes[k] = <<<<"c2", 1>>, <<"c1", 1>>>>
        /\ Len(appended[k]) = 2
        /\ appended[k][1] = clients["c1"].calls[1].val
        /\ appended[k][1] # appended[k][2]
        /\ RedisList(k).val = <<dumps(appended[k][2]), dumps(appended[k][1])>>
        /\ ret.op = "get_list" /\ ret.key = k
        /\ ret.redis.val = <<dumps(appended[k][2])>>

LmdbKeys(db) == {k \in Keys : Len(db[k]) > 0}

\* C16: on every backend append_val(k, v), returning or raising, leaves
\* what get_list gives for every other key as it was, and stores no key
\* other than k that was not stored before.
C16_AppendOtherKeys ==
    [][StepOp = "append_val"
          => /\ \A k2 \in Keys \ {StepKey} :
                  /\ SameRet(MemList(k2), MemListNext(k2))
                  /\ SameRet(RedisList(k2), RedisListNext(k2))
                  /\ SameRet(LmdbList(k2), LmdbListNext(k2))
             /\ StoredKeys(mem'.storage) \subseteq StoredKeys(mem.storage) \cup {StepKey}
             /\ StoredKeys(rds'.storage) \subseteq StoredKeys(rds.storage) \cup {StepKey}
             /\ LmdbKeys(ldb'.storage) \subseteq LmdbKeys(ldb.storage) \cup {StepKey}
      ]_vars

\* a second value was appended under a key while another key holds a list
\* of one different value, which get_list still gives on each backend
C16_Witness ==
    /\ ret.op = "append_val"
    /\ ret.dict.out = "ok" /\ ret.redis.out = "ok" /\ ret.lmdb.out = "ok"
    /\ Len(appended[ret.key]) = 2
    /\ GaveList(MemList(ret.key), appended[ret.key])
    /\ \E k2 \in Keys \ {ret.key} :
          /\ Len(appended[k2]) = 1
          /\ appended[k2][1] # appended[ret.key][2]
          /\ GaveList(MemList(k2), appended[k2])
          /\ GaveList(RedisList(k2), DumpsAll(k2))
          /\ GaveList(LmdbList(k2), DumpsAll(k2))

\* C17: on every backend get_list(k), of a stored key or an absent one,
\* changes nothing: the instance, and with it what is stored under every
\* key, is as it was, and keys() gives the same keys; an absent key stays
\* absent.
C17_GetListReadOnly ==
    [][StepOp = "get_list"
          => /\ mem' = mem /\ rds' = rds /\ ldb' = ldb
             /\ StoredKeys(mem'.storage) = StoredKeys(mem.storage)
             /\ StoredKeys(rds'.storage) = StoredKeys(rds.storage)
             /\ LmdbKeys(ldb'.storage) = LmdbKeys(ldb.storage)
             /\ SameRet(InMemoryStorage_keys(mem).ret, InMemoryStorage_keys(mem').ret)
             /\ SameRet(RedisStorage_keys(rds).ret, RedisStorage_keys(rds').ret)
             /\ \A k \in Keys :
                  /\ mem'.storage[k] = mem.storage[k]
                  /\ rds'.storage[k] = rds.storage[k]
                  /\ ldb'.storage[k] = ldb.storage[k]
      ]_vars

\* get_list of a key never written gave the empty list on each backend, and
\* the key is still absent from each, the other key holding two entries
C17_Witness ==
    /\ ret.op = "get_list"
    /\ GaveList(ret.dict, <<>>) /\ GaveList(ret.redis, <<>>) /\ GaveList(ret.lmdb, <<>>)
    /\ StoredKeys(mem.storage) = Keys \ {ret.key}
    /\ StoredKeys(rds.storage) = Keys \ {ret.key}
    /\ LmdbKeys(ldb.storage) = Keys \ {ret.key}
    /\ \A k \in Keys \ {ret.key} : Len(MemList(k).val) = 2

=============================================================================
